---- MODULE Spec2Model ----
(***************************************************************************)
(* Model of src/main.py (Monobank MCP server): the two tools               *)
(* get_client_info and get_statement, the pydantic record types they       *)
(* validate against, and the per-item transformation of get_statement.     *)
(*                                                                         *)
(* A tool call is two atomic steps around its single await: everything up  *)
(* to `await client.get(...)`, and everything after the upstream answered. *)
(***************************************************************************)
EXTENDS Integers, Sequences, FiniteSets, TLC

VARIABLES
    tz,         \* host time zone: seconds east of UTC
    now,        \* wall clock, epoch seconds
    pc,         \* "idle" | "awaiting" | "done"
    call,       \* the tool invocation being served and its arguments
    requests,   \* the GETs issued on behalf of the current call
    prevSent,   \* clock reading at which the previous call issued its GET, if any
    response,   \* what the upstream answered to the GET
    steps,      \* the stages the handler ran after the await
    outcome     \* what the caller gets: a result or a raised exception

vars == <<tz, now, pc, call, requests, prevSent, response, steps, outcome>>

(***************************************************************************)
(* Bounds of the model.                                                    *)
(***************************************************************************)
MaxItems == 2       \* longest statement array the upstream answers with
MaxTicks == 1       \* how far the wall clock advances
MaxAmount == 120    \* largest multiplier of the amounts and times of SpecValues

(***************************************************************************)
(* JSON values as response.json() delivers them, and Python values.        *)
(***************************************************************************)
JInt(i)  == [t |-> "int",  n |-> i, s |-> "", l |-> <<>>]
JStr(str) == [t |-> "str",  n |-> 0, s |-> str, l |-> <<>>]
JBool(b) == [t |-> "bool", n |-> IF b THEN 1 ELSE 0, s |-> "", l |-> <<>>]
JNull    == [t |-> "null", n |-> 0, s |-> "", l |-> <<>>]
JList(items) == [t |-> "list", n |-> 0, s |-> "", l |-> items]

(***************************************************************************)
(* Decimal rendering of integers: str(int), as the f-string and strftime   *)
(* produce it.                                                             *)
(***************************************************************************)
Digits == <<"0", "1", "2", "3", "4", "5", "6", "7", "8", "9">>

RECURSIVE NatStr(_)
NatStr(i) ==
    IF i < 10 THEN <<Digits[i + 1]>>
    ELSE Append(NatStr(i \div 10), Digits[(i % 10) + 1])

IntStr(i) == IF i < 0 THEN <<"-">> \o NatStr(-i) ELSE NatStr(i)

RECURSIVE ZeroPad(_, _)
ZeroPad(str, width) ==
    IF Len(str) >= width THEN str ELSE ZeroPad(<<"0">> \o str, width)

(***************************************************************************)
(* datetime.utcfromtimestamp(t).strftime("%Y-%m-%dT%H:%M:%SZ")             *)
(* (line 142-143).  The date is found from the day count by the 400-, 100-,*)
(* 4- and 1-year cycles of the proleptic Gregorian calendar, as the        *)
(* datetime module does (ordinal 1 is 0001-01-01, 719163 is 1970-01-01).   *)
(***************************************************************************)
DaysBeforeMonth == <<0, 31, 59, 90, 120, 151, 181, 212, 243, 273, 304, 334>>

IsLeap(y) == y % 4 = 0 /\ (y % 100 # 0 \/ y % 400 = 0)

DaysInMonth(y, m) ==
    IF m = 2 THEN (IF IsLeap(y) THEN 29 ELSE 28)
    ELSE IF m \in {4, 6, 9, 11} THEN 30 ELSE 31

ord_to_ymd(ordinal) ==
    LET o0   == ordinal - 1
        n400 == o0 \div 146097
        r400 == o0 % 146097
        n100 == r400 \div 36524
        r100 == r400 % 36524
        n4   == r100 \div 1461
        r4   == r100 % 1461
        n1   == r4 \div 365
        n    == r4 % 365
        year == 400 * n400 + 1 + 100 * n100 + 4 * n4 + n1
    IN  IF n1 = 4 \/ n100 = 4
        THEN [year |-> year - 1, month |-> 12, day |-> 31]
        ELSE LET leap  == n1 = 3 /\ (n4 # 24 \/ n100 = 3)
                 m0    == (n + 50) \div 32
                 pre0  == DaysBeforeMonth[m0] + (IF m0 > 2 /\ leap THEN 1 ELSE 0)
                 month == IF pre0 > n THEN m0 - 1 ELSE m0
                 pre   == IF pre0 > n THEN pre0 - DaysInMonth(year, m0 - 1) ELSE pre0
             IN  [year |-> year, month |-> month, day |-> n - pre + 1]

\* A naive datetime: the fields of the broken-down time of epoch second t.
BrokenDown(t) ==
    LET days == t \div 86400
        secs == t % 86400
        ymd  == ord_to_ymd(days + 719163)
    IN  [year |-> ymd.year, month |-> ymd.month, day |-> ymd.day,
         hour |-> secs \div 3600, minute |-> (secs % 3600) \div 60,
         second |-> secs % 60]

\* datetime.fromtimestamp: the host's local time (not what the code calls).
fromtimestamp(t) == BrokenDown(t + tz)

\* datetime.utcfromtimestamp: UTC, whatever the host's zone.
utcfromtimestamp(t) == BrokenDown(t)

\* strftime("%Y-%m-%dT%H:%M:%SZ")
strftime(d) ==
    ZeroPad(NatStr(d.year), 4) \o <<"-">> \o ZeroPad(NatStr(d.month), 2) \o <<"-">>
    \o ZeroPad(NatStr(d.day), 2) \o <<"T">> \o ZeroPad(NatStr(d.hour), 2) \o <<":">>
    \o ZeroPad(NatStr(d.minute), 2) \o <<":">> \o ZeroPad(NatStr(d.second), 2)
    \o <<"Z">>

\* datetime.now().timestamp() truncated by int(): the local naive time of the
\* clock reading, read back as local time (line 121).
now_timestamp == LET local == now + tz IN local - tz

(***************************************************************************)
(* item[key] / 100 (line 151): Python's true division of two ints, the     *)
(* IEEE-754 binary64 number nearest to the quotient (ties to even).  A     *)
(* float is its sign, its significand as Precision bits (most significant  *)
(* first, empty for zero) and the exponent of its last bit: the value is   *)
(* (-1)^sign * sig * 2^exp.                                                *)
(***************************************************************************)
Precision == 53

\* The number of bits of i >= 0, and its bits.
BitLength(i) == IF i = 0 THEN 0 ELSE CHOOSE len \in 1..31 : i \div 2^(len - 1) = 1

BitsOf(i) == [k \in 1..BitLength(i) |-> (i \div 2^(BitLength(i) - k)) % 2]

\* 2^k modulo d, thirty bits of the exponent at a time.
RECURSIVE PowMod2(_, _)
PowMod2(k, d) ==
    IF k <= 30 THEN (2^k) % d ELSE (((2^30) % d) * PowMod2(k - 30, d)) % d

\* Long division of r < d by d: what is left of the dividend after k bits of
\* the quotient, and the k-th bit of the quotient after the binary point.
RemainderAt(r, k, d) == (r * PowMod2(k, d)) % d
FractionBit(r, k, d) == (2 * RemainderAt(r, k - 1, d)) \div d

\* sig + 1 in the last place; one bit longer when every bit was 1.
Increment(sig) ==
    IF \A i \in 1..Len(sig) : sig[i] = 1
    THEN [i \in 1..Len(sig) + 1 |-> IF i = 1 THEN 1 ELSE 0]
    ELSE LET p == CHOOSE i \in 1..Len(sig) :
                      sig[i] = 0 /\ \A j \in i + 1..Len(sig) : sig[j] = 1
         IN  [i \in 1..Len(sig) |-> IF i < p THEN sig[i] ELSE IF i = p THEN 1 ELSE 0]

\* The quotient m / d of naturals m > 0 and d > 0, cut after Precision
\* significant bits: the bits, the exponent of the last one, and what is
\* left of the dividend.
QuotientBits(m, d) ==
    LET whole == BitsOf(m \div d)
        r     == m % d
        zeros == IF m \div d > 0 THEN 0
                 ELSE CHOOSE z \in 0..BitLength(d) :
                          /\ FractionBit(r, z + 1, d) = 1
                          /\ \A j \in 1..z : FractionBit(r, j, d) = 0
        kept  == Precision - Len(whole) + zeros
    IN  [sig |-> [i \in 1..Precision |->
                     IF i <= Len(whole) THEN whole[i]
                     ELSE FractionBit(r, i - Len(whole) + zeros, d)],
         exp |-> -kept,
         rem |-> RemainderAt(r, kept, d)]

RoundNearestEven(q, d) ==
    LET up  == 2 * q.rem > d \/ (2 * q.rem = d /\ q.sig[Len(q.sig)] = 1)
        inc == Increment(q.sig)
    IN  IF ~up THEN [sig |-> q.sig, exp |-> q.exp]
        ELSE IF Len(inc) > Precision
             THEN [sig |-> SubSeq(inc, 1, Precision), exp |-> q.exp + 1]
             ELSE [sig |-> inc, exp |-> q.exp]

Float(negative, r) ==
    [sign |-> IF negative THEN 1 ELSE 0, sig |-> r.sig, exp |-> r.exp]

FloatZero == [sign |-> 0, sig |-> <<>>, exp |-> 0]

\* a // d as a float: the quotient rounded down to a whole number (not what
\* the code computes).
FloorDiv(a, d) ==
    LET q == a \div d
    IN  IF q = 0 THEN FloatZero
        ELSE Float(q < 0, QuotientBits((IF q < 0 THEN -q ELSE q) * d, d))

\* a / d for ints a and d > 0.
TrueDiv(a, d) ==
    IF a = 0 THEN FloatZero
    ELSE Float(a < 0, RoundNearestEven(QuotientBits(IF a < 0 THEN -a ELSE a, d), d))

(***************************************************************************)
(* The record types (lines 25-74).  A field is its canonical name, the key *)
(* it is read from (its alias, or its name when it has none), its declared *)
(* type, and whether it is Optional with default None.                     *)
(***************************************************************************)
Fld(name, key, type, optional) ==
    [name |-> name, key |-> key, type |-> type, optional |-> optional]

\* Account with send_id read by its field name: the alias forgotten.
AccountNoAlias ==
    << Fld("id", "id", "str", FALSE),
       Fld("send_id", "send_id", "str", FALSE),
       Fld("balance", "balance", "int", FALSE),
       Fld("credit_limit", "creditLimit", "int", FALSE),
       Fld("type", "type", "str", FALSE),
       Fld("currency_code", "currencyCode", "int", FALSE),
       Fld("cashback_type", "cashbackType", "str", FALSE),
       Fld("masked_pan", "maskedPan", "list_str", FALSE),
       Fld("iban", "iban", "str", FALSE) >>

Account ==
    << Fld("id", "id", "str", FALSE),
       Fld("send_id", "sendId", "str", FALSE),
       Fld("balance", "balance", "int", FALSE),
       Fld("credit_limit", "creditLimit", "int", FALSE),
       Fld("type", "type", "str", FALSE),
       Fld("currency_code", "currencyCode", "int", FALSE),
       Fld("cashback_type", "cashbackType", "str", FALSE),
       Fld("masked_pan", "maskedPan", "list_str", FALSE),
       Fld("iban", "iban", "str", FALSE) >>

Jar ==
    << Fld("id", "id", "str", FALSE),
       Fld("send_id", "sendId", "str", FALSE),
       Fld("title", "title", "str", FALSE),
       Fld("description", "description", "str", TRUE),
       Fld("currency_code", "currencyCode", "int", FALSE),
       Fld("balance", "balance", "int", FALSE),
       Fld("goal", "goal", "int", TRUE) >>

ClientInfo ==
    << Fld("client_id", "clientId", "str", FALSE),
       Fld("name", "name", "str", FALSE),
       Fld("webhook_url", "webHookUrl", "str", FALSE),
       Fld("permissions", "permissions", "str", FALSE),
       Fld("accounts", "accounts", "list_Account", FALSE),
       Fld("jars", "jars", "list_Jar", TRUE) >>

StatementItem ==
    << Fld("id", "id", "str", FALSE),
       Fld("time", "time", "int", FALSE),
       Fld("description", "description", "str", FALSE),
       Fld("mcc", "mcc", "int", FALSE),
       Fld("original_mcc", "originalMcc", "int", FALSE),
       Fld("hold", "hold", "bool", FALSE),
       Fld("amount", "amount", "int", FALSE),
       Fld("operation_amount", "operationAmount", "int", FALSE),
       Fld("currency_code", "currencyCode", "int", FALSE),
       Fld("commission_rate", "commissionRate", "int", FALSE),
       Fld("cashback_amount", "cashbackAmount", "int", FALSE),
       Fld("balance", "balance", "int", FALSE),
       Fld("comment", "comment", "str", TRUE),
       Fld("receipt_id", "receiptId", "str", TRUE),
       Fld("invoice_id", "invoiceId", "str", TRUE),
       Fld("counter_edrpou", "counterEdrpou", "str", TRUE),
       Fld("counter_iban", "counterIban", "str", TRUE),
       Fld("counter_name", "counterName", "str", TRUE) >>

(***************************************************************************)
(* pydantic validation of one value against a declared type, in the        *)
(* default (lax) mode the models are declared in: none of them sets        *)
(* strict.  An int field takes an int, a bool, or a string that spells an  *)
(* integer; a bool field takes a bool, the ints 0 and 1, or a string that  *)
(* spells a truth value; a str field takes only a str.  The strings that   *)
(* spell an integer or a truth value are given by table, for the strings   *)
(* the upstream is modelled to send; JSON numbers with a fraction are not  *)
(* among them.                                                             *)
(***************************************************************************)
IntLiteral == ("5411" :> 5411) @@ ("700" :> 700) @@ ("0" :> 0) @@ ("1" :> 1)

BoolLiteral == ("true" :> TRUE) @@ ("false" :> FALSE) @@ ("1" :> TRUE) @@ ("0" :> FALSE)
               @@ ("yes" :> TRUE) @@ ("no" :> FALSE) @@ ("on" :> TRUE) @@ ("off" :> FALSE)

Invalid == [ok |-> FALSE, v |-> JNull]
Valid(v) == [ok |-> TRUE, v |-> v]

ValidateScalar(type, jv) ==
    CASE type = "str" ->
            IF jv.t = "str" THEN Valid(jv) ELSE Invalid
      [] type = "int" ->
            IF jv.t = "int" THEN Valid(jv)
            ELSE IF jv.t = "bool" THEN Valid(JInt(jv.n))
            ELSE IF jv.t = "str" /\ jv.s \in DOMAIN IntLiteral
                 THEN Valid(JInt(IntLiteral[jv.s]))
            ELSE Invalid
      [] type = "bool" ->
            IF jv.t = "bool" THEN Valid(jv)
            ELSE IF jv.t = "int" /\ jv.n \in {0, 1} THEN Valid(JBool(jv.n = 1))
            ELSE IF jv.t = "str" /\ jv.s \in DOMAIN BoolLiteral
                 THEN Valid(JBool(BoolLiteral[jv.s]))
            ELSE Invalid
      [] type = "list_str" ->
            IF jv.t = "list" /\ \A i \in 1..Len(jv.l) : jv.l[i].t = "str"
            THEN Valid(jv) ELSE Invalid
      [] OTHER -> Invalid

\* A field with no nested model: absent or null is None for an Optional field
\* and an error for a required one.
ValidateField(f, obj) ==
    IF f.key \notin DOMAIN obj
    THEN (IF f.optional THEN Valid(JNull) ELSE Invalid)
    ELSE IF obj[f.key].t = "null"
    THEN (IF f.optional THEN Valid(JNull) ELSE Invalid)
    ELSE ValidateScalar(f.type, obj[f.key])

FieldNames(schema) == {schema[i].name : i \in 1..Len(schema)}
FieldOf(schema, name) == schema[CHOOSE i \in 1..Len(schema) : schema[i].name = name]

\* Model.model_validate(obj).model_dump() for a model of scalar fields: every
\* declared field under its canonical name; keys the model does not declare
\* are ignored.
ValidateFlat(schema, obj) ==
    [ok |-> \A i \in 1..Len(schema) : ValidateField(schema[i], obj).ok,
     v  |-> [name \in FieldNames(schema) |->
                ValidateField(FieldOf(schema, name), obj).v]]

\* A list validator that drops the elements that do not validate (not what
\* pydantic does).
ValidateListSkipInvalid(schema, jv) ==
    IF jv.t = "list"
    THEN LET good == SelectSeq(jv.l, LAMBDA e : ValidateFlat(schema, e).ok)
         IN  Valid(JList([i \in 1..Len(good) |-> ValidateFlat(schema, good[i]).v]))
    ELSE Invalid

\* List[Model]: a list all of whose elements validate; one bad element fails
\* the whole list.
ValidateList(schema, jv) ==
    IF jv.t = "list" /\ \A i \in 1..Len(jv.l) : ValidateFlat(schema, jv.l[i]).ok
    THEN Valid(JList([i \in 1..Len(jv.l) |-> ValidateFlat(schema, jv.l[i]).v]))
    ELSE Invalid

\* A field of any declared type, nested lists of models included.
ValidateAny(f, obj) ==
    IF f.type \notin {"list_Account", "list_Jar"} THEN ValidateField(f, obj)
    ELSE IF f.key \notin DOMAIN obj \/ obj[f.key].t = "null"
    THEN (IF f.optional THEN Valid(JNull) ELSE Invalid)
    ELSE ValidateList(IF f.type = "list_Account" THEN Account ELSE Jar, obj[f.key])

\* ClientInfo.model_validate(doc).model_dump() (line 95).
ValidateModel(schema, obj) ==
    [ok |-> \A i \in 1..Len(schema) : ValidateAny(schema[i], obj).ok,
     v  |-> [name \in FieldNames(schema) |->
                ValidateAny(FieldOf(schema, name), obj).v]]

(***************************************************************************)
(* What the upstream may answer with: statement elements and client-info   *)
(* documents, some as the wire schema has them, some not.                  *)
(***************************************************************************)
ItemFull ==
    ("id" :> JStr("tx-1")) @@ ("time" :> JInt(1700000000))
    @@ ("description" :> JStr("Coffee")) @@ ("mcc" :> JInt(5814))
    @@ ("originalMcc" :> JInt(5812)) @@ ("hold" :> JBool(FALSE))
    @@ ("amount" :> JInt(-123456)) @@ ("operationAmount" :> JInt(-7))
    @@ ("currencyCode" :> JInt(980)) @@ ("commissionRate" :> JInt(0))
    @@ ("cashbackAmount" :> JInt(29)) @@ ("balance" :> JInt(2500))
    @@ ("comment" :> JStr("thanks")) @@ ("receiptId" :> JStr("R-1"))
    @@ ("invoiceId" :> JStr("INV-1")) @@ ("counterEdrpou" :> JStr("30968899"))
    @@ ("counterIban" :> JStr("UA21-1")) @@ ("counterName" :> JStr("ACME"))

ItemMinimal ==
    ("id" :> JStr("tx-2")) @@ ("time" :> JInt(951868799))
    @@ ("description" :> JStr("Salary")) @@ ("mcc" :> JInt(4829))
    @@ ("originalMcc" :> JInt(4900)) @@ ("hold" :> JBool(TRUE))
    @@ ("amount" :> JInt(123456)) @@ ("operationAmount" :> JInt(1))
    @@ ("currencyCode" :> JInt(840)) @@ ("commissionRate" :> JInt(58))
    @@ ("cashbackAmount" :> JInt(100)) @@ ("balance" :> JInt(2147483647))

ItemNulls ==
    ("id" :> JStr("tx-3")) @@ ("time" :> JInt(-1))
    @@ ("description" :> JStr("")) @@ ("mcc" :> JInt(0))
    @@ ("originalMcc" :> JInt(5411)) @@ ("hold" :> JBool(FALSE))
    @@ ("amount" :> JInt(7)) @@ ("operationAmount" :> JInt(-2147483647))
    @@ ("currencyCode" :> JInt(978)) @@ ("commissionRate" :> JInt(-99))
    @@ ("cashbackAmount" :> JInt(33)) @@ ("balance" :> JInt(-2575))
    @@ ("comment" :> JNull) @@ ("invoiceId" :> JNull)
    @@ ("counterName" :> JStr("Bob")) @@ ("extra" :> JInt(1))

\* mcc left out.
ItemNoMcc ==
    ("id" :> JStr("tx-4")) @@ [k \in DOMAIN ItemMinimal \ {"mcc"} |-> ItemMinimal[k]]

\* Values of another JSON type than the declared one, which lax validation
\* converts.
ItemLax ==
    ("id" :> JStr("tx-5")) @@ ("mcc" :> JStr("5411")) @@ ("hold" :> JInt(1)) @@ ("currencyCode" :> JBool(TRUE))
    @@ ("time" :> JInt(0)) @@ ItemMinimal

\* Values of another JSON type than the declared one, which no validation
\* converts.
ItemBadType == ("id" :> JStr("tx-6")) @@ ("mcc" :> JStr("grocery")) @@ ItemFull

SampleItems == <<ItemFull, ItemMinimal, ItemNulls, ItemNoMcc, ItemLax, ItemBadType>>

AccountBlack ==
    ("id" :> JStr("acc-1")) @@ ("sendId" :> JStr("send-1")) @@ ("balance" :> JInt(123456))
    @@ ("creditLimit" :> JInt(1000000)) @@ ("type" :> JStr("black"))
    @@ ("currencyCode" :> JInt(980)) @@ ("cashbackType" :> JStr("UAH"))
    @@ ("maskedPan" :> JList(<<JStr("537541******1234"), JStr("444111******9876")>>))
    @@ ("iban" :> JStr("UA21-1"))

AccountWhite ==
    ("id" :> JStr("acc-2")) @@ ("sendId" :> JStr("")) @@ ("balance" :> JInt(-7))
    @@ ("creditLimit" :> JInt(0)) @@ ("type" :> JStr("white"))
    @@ ("currencyCode" :> JInt(840)) @@ ("cashbackType" :> JStr("None"))
    @@ ("maskedPan" :> JList(<<>>)) @@ ("iban" :> JStr("UA21-2"))

JarGoal ==
    ("id" :> JStr("jar-1")) @@ ("sendId" :> JStr("jar/1")) @@ ("title" :> JStr("Trip"))
    @@ ("description" :> JStr("Summer")) @@ ("currencyCode" :> JInt(980))
    @@ ("balance" :> JInt(2500)) @@ ("goal" :> JInt(1000000))

JarPlain ==
    ("id" :> JStr("jar-2")) @@ ("sendId" :> JStr("jar/2")) @@ ("title" :> JStr("Misc"))
    @@ ("currencyCode" :> JInt(840)) @@ ("balance" :> JInt(29))

DocHead ==
    ("clientId" :> JStr("client-1")) @@ ("name" :> JStr("Taras"))
    @@ ("webHookUrl" :> JStr("https://hook")) @@ ("permissions" :> JStr("psfj"))

DocFull ==
    DocHead @@ ("accounts" :> JList(<<AccountBlack, AccountWhite>>))
    @@ ("jars" :> JList(<<JarGoal, JarPlain>>))

DocReversed ==
    DocHead @@ ("accounts" :> JList(<<AccountWhite, AccountBlack>>))
    @@ ("jars" :> JList(<<JarPlain>>))

DocNoJars == DocHead @@ ("accounts" :> JList(<<>>))

DocNullJars == DocHead @@ ("accounts" :> JList(<<AccountWhite>>)) @@ ("jars" :> JNull)

DocNoAccounts == DocHead @@ ("jars" :> JList(<<JarGoal>>))

DocBadAccount ==
    DocHead
    @@ ("accounts" :> JList(<<AccountBlack, ("balance" :> JStr("a lot")) @@ AccountWhite>>))

DocLaxAccount ==
    DocHead @@ ("accounts" :> JList(<<("balance" :> JStr("700")) @@ AccountBlack>>))

DocJarNoTitle ==
    DocHead @@ ("accounts" :> JList(<<AccountBlack>>))
    @@ ("jars" :> JList(<<[k \in DOMAIN JarPlain \ {"title"} |-> JarPlain[k]]>>))

\* The error document the upstream sends with a failure status.
DocError == ("errorDescription" :> JStr("Too many requests"))

SampleDocs ==
    <<DocFull, DocReversed, DocNoJars, DocNullJars, DocNoAccounts, DocBadAccount,
      DocLaxAccount, DocJarNoTitle, DocError>>

(***************************************************************************)
(* The HTTP exchange (lines 88-93 and 129-134).                            *)
(***************************************************************************)
\* httpx's exception classes and their base classes.
BaseClass ==
    ("ConnectError" :> "NetworkError") @@ ("ReadError" :> "NetworkError")
    @@ ("ConnectTimeout" :> "TimeoutException")
    @@ ("NetworkError" :> "TransportError") @@ ("TimeoutException" :> "TransportError")
    @@ ("TransportError" :> "RequestError") @@ ("RequestError" :> "HTTPError")
    @@ ("HTTPStatusError" :> "HTTPError") @@ ("HTTPError" :> "Exception")

RECURSIVE IsSubclass(_, _)
IsSubclass(cls, base) ==
    \/ cls = base
    \/ cls \in DOMAIN BaseClass /\ IsSubclass(BaseClass[cls], base)

\* An except clause for timeouts only (not what the code catches).
CaughtTimeoutsOnly == "TimeoutException"

\* except httpx.RequestError (lines 92, 133)
CaughtClass == "RequestError"

\* A check that raises for 4xx and 5xx only (not what httpx does).
raise_for_client_or_server_error(status) == status >= 400

\* response.raise_for_status(): raises HTTPStatusError unless the status is 2xx.
raise_for_status(status) == ~(status >= 200 /\ status <= 299)

\* What the try block raises, if anything: client.get's transport error, or
\* raise_for_status's HTTPStatusError.
RaisedInTry(resp) ==
    IF resp.kind = "error" THEN resp.exc
    ELSE IF raise_for_status(resp.status) THEN "HTTPStatusError"
    ELSE "none"

Raise(exc, status, cause) ==
    [kind |-> "raise", exc |-> exc, status |-> status, cause |-> cause,
     items |-> <<>>, info |-> <<>>]

ReturnItems(items) ==
    [kind |-> "return", exc |-> "", status |-> 0, cause |-> "", items |-> items,
     info |-> <<>>]

ReturnInfo(info) ==
    [kind |-> "return", exc |-> "", status |-> 0, cause |-> "", items |-> <<>>,
     info |-> info]

NoOutcome ==
    [kind |-> "none", exc |-> "", status |-> 0, cause |-> "", items |-> <<>>,
     info |-> <<>>]

\* The try/except: a RequestError becomes ConnectionError(...) from e; anything
\* else the block raised propagates as it is.
TryExcept(resp) ==
    LET e == RaisedInTry(resp)
    IN  IF IsSubclass(e, CaughtClass) THEN Raise("ConnectionError", 0, e)
        ELSE Raise(e, resp.status, "")

TrySteps(resp) ==
    IF resp.kind = "error" THEN <<"get">> ELSE <<"get", "raise_for_status">>

(***************************************************************************)
(* get_statement's transformation of one dumped item (lines 141-154).      *)
(***************************************************************************)
\* A Python str given by its characters.
PyChars(cs) == [t |-> "str", n |-> 0, s |-> "", l |-> cs]

AmountKeys == {"amount", "operation_amount", "commission_rate", "cashback_amount", "balance"}

\* The wire names of the redacted fields, as the docstring lists them (not
\* the keys the code pops).
RedactedWireNames == {"id", "invoiceId", "counterEdrpou", "counterIban"}

RedactedKeys == {"id", "invoice_id", "counter_edrpou", "counter_iban"}

TransformItem(item) ==
    LET timed   == [item EXCEPT !["time"] = PyChars(strftime(utcfromtimestamp(item["time"].n)))]
        divided == [k \in DOMAIN timed |->
                        IF k \in AmountKeys THEN TrueDiv(timed[k].n, 100) ELSE timed[k]]
    IN  [k \in DOMAIN divided \ RedactedKeys |-> divided[k]]

\* to_timestamp or int(datetime.now().timestamp()), whatever was passed (not
\* what the code does).
AlwaysNow(to_timestamp) == now_timestamp

\* to_timestamp or int(datetime.now().timestamp()) (line 121)
EffectiveTo(to_timestamp) ==
    IF to_timestamp = 0 THEN now_timestamp ELSE to_timestamp

\* The f-string of lines 123-126, piece by piece.
statement_url(account_id, from_timestamp, to_timestamp) ==
    <<"https://api.monobank.ua/personal/statement/", account_id, "/">>
    \o IntStr(from_timestamp) \o <<"/">> \o IntStr(to_timestamp)

client_info_url == <<"https://api.monobank.ua/personal/client-info">>

\* Everything get_statement does once the await has returned (lines 132-155).
get_statement_resume(resp) ==
    IF RaisedInTry(resp) # "none"
    THEN [outcome |-> TryExcept(resp), steps |-> TrySteps(resp)]
    ELSE IF resp.body.form = "text"
    THEN [outcome |-> Raise("JSONDecodeError", 0, ""),
          steps |-> TrySteps(resp) \o <<"json">>]
    ELSE LET parsed == IF resp.body.form = "array" THEN JList(resp.body.items)
                       ELSE JNull
             v == ValidateList(StatementItem, parsed)
         IN  IF ~v.ok
             THEN [outcome |-> Raise("ValidationError", 0, ""),
                   steps |-> TrySteps(resp) \o <<"json", "validate">>]
             ELSE [outcome |-> ReturnItems([i \in 1..Len(v.v.l) |-> TransformItem(v.v.l[i])]),
                   steps |-> TrySteps(resp) \o <<"json", "validate", "model_dump", "transform">>]

\* Everything get_client_info does once the await has returned (lines 91-95).
get_client_info_resume(resp) ==
    IF RaisedInTry(resp) # "none"
    THEN [outcome |-> TryExcept(resp), steps |-> TrySteps(resp)]
    ELSE IF resp.body.form = "text"
    THEN [outcome |-> Raise("JSONDecodeError", 0, ""),
          steps |-> TrySteps(resp) \o <<"json">>]
    ELSE LET v == IF resp.body.form = "object" THEN ValidateModel(ClientInfo, resp.body.doc)
                  ELSE [ok |-> FALSE, v |-> <<>>]
         IN  IF ~v.ok
             THEN [outcome |-> Raise("ValidationError", 0, ""),
                   steps |-> TrySteps(resp) \o <<"json", "validate">>]
             ELSE [outcome |-> ReturnInfo(v.v),
                   steps |-> TrySteps(resp) \o <<"json", "validate", "model_dump">>]

(***************************************************************************)
(* The environment: the callers' arguments and the upstream's answers.     *)
(***************************************************************************)
AccountIds == {"0", "acc-1"}
FromTimestamps == {1697000000, 1699999000}
ToTimestamps == {0, 1700000000}

TransportErrors == {"ConnectError", "ConnectTimeout", "ReadError"}
FailureStatuses == {301, 404, 429, 500}

ArrayBody(items) == [form |-> "array", items |-> items, doc |-> <<>>]
ObjectBody(doc)  == [form |-> "object", items |-> <<>>, doc |-> doc]
TextBody         == [form |-> "text", items |-> <<>>, doc |-> <<>>]

\* Every array of at most MaxItems sample elements, in every order; a
\* transaction occurs once in a statement.
StatementArrays ==
    UNION {{[i \in 1..k |-> SampleItems[pick[i]]] :
               pick \in {p \in [1..k -> 1..Len(SampleItems)] :
                            \A i, j \in 1..k : p[i] = p[j] => i = j}}
           : k \in 0..MaxItems}

Http(status, body) == [kind |-> "http", exc |-> "", status |-> status, body |-> body]
TransportError(exc) == [kind |-> "error", exc |-> exc, status |-> 0, body |-> TextBody]
NoResponse == [kind |-> "none", exc |-> "", status |-> 0, body |-> TextBody]

Answers(tool) ==
    {TransportError(e) : e \in TransportErrors}
    \cup {Http(200, TextBody), Http(200, ObjectBody(DocError)), Http(200, ArrayBody(<<>>))}
    \cup (IF tool = "get_statement"
          THEN {Http(200, ArrayBody(a)) : a \in StatementArrays}
               \cup {Http(st, b) : st \in FailureStatuses \cup {201},
                                   b \in {ObjectBody(DocError), ArrayBody(<<ItemFull, ItemNulls>>)}}
          ELSE {Http(200, ObjectBody(SampleDocs[i])) : i \in 1..Len(SampleDocs)}
               \cup {Http(st, b) : st \in FailureStatuses \cup {201},
                                   b \in {ObjectBody(DocError), ObjectBody(DocFull)}})

\* A statement element whose time and amounts grow with k: times 197 days
\* apart around the epoch, amounts of every sign and of two to ten digits.
ItemOfSize(k) ==
    ("id" :> JStr("tx-k")) @@ ("time" :> JInt(17000000 * k))
    @@ ("description" :> JStr("Transfer")) @@ ("mcc" :> JInt(4829))
    @@ ("originalMcc" :> JInt(4829)) @@ ("hold" :> JBool(FALSE))
    @@ ("amount" :> JInt(k)) @@ ("operationAmount" :> JInt(1000 * k + 7))
    @@ ("currencyCode" :> JInt(980)) @@ ("commissionRate" :> JInt(-25 * k))
    @@ ("cashbackAmount" :> JInt(12345 - 100 * k)) @@ ("balance" :> JInt(17000001 * k))

AnswersOfSize == {Http(200, ArrayBody(<<ItemOfSize(k)>>)) : k \in -MaxAmount..MaxAmount}

NoCall ==
    [tool |-> "none", account_id |-> "", from_timestamp |-> 0, to_timestamp |-> 0, at |-> 0]

\* settings.API_TOKEN when MONOBANK_API_TOKEN is not set (lines 15-22).
API_TOKEN == "X_TOKEN_PLACEHOLDER"

\* client.get(api_url, headers=headers)
Get(url) == [method |-> "GET", url |-> url, headers |-> ("X-Token" :> API_TOKEN)]

(***************************************************************************)
(* The steps.                                                              *)
(***************************************************************************)
Init ==
    /\ tz \in {0, 7200}
    /\ now = 1700000100
    /\ pc = "idle"
    /\ call = NoCall
    /\ requests = <<>>
    /\ prevSent = <<>>
    /\ response = NoResponse
    /\ steps = <<>>
    /\ outcome = NoOutcome

\* The wall clock advances.
Tick ==
    /\ pc = "idle"
    /\ now < 1700000100 + 30 * MaxTicks
    /\ now' = now + 30
    /\ UNCHANGED <<tz, pc, call, requests, prevSent, response, steps, outcome>>

\* get_client_info up to its await (lines 85-90).
InvokeClientInfo ==
    /\ pc = "idle"
    /\ call' = [NoCall EXCEPT !.tool = "get_client_info", !.at = now]
    /\ requests' = <<Get(client_info_url)>>
    /\ pc' = "awaiting"
    /\ UNCHANGED <<tz, now, prevSent, response, steps, outcome>>

\* get_statement up to its await (lines 121-131).
InvokeStatement ==
    /\ pc = "idle"
    /\ \E account_id \in AccountIds, from_timestamp \in FromTimestamps,
          to_timestamp \in ToTimestamps :
          /\ call' = [tool |-> "get_statement", account_id |-> account_id,
                      from_timestamp |-> from_timestamp, to_timestamp |-> to_timestamp,
                      at |-> now]
          /\ requests' = <<Get(statement_url(account_id, from_timestamp,
                                             EffectiveTo(to_timestamp)))>>
    /\ pc' = "awaiting"
    /\ UNCHANGED <<tz, now, prevSent, response, steps, outcome>>

\* The await returns (or raises) and get_client_info runs to its end.
ResumeClientInfo ==
    /\ pc = "awaiting"
    /\ call.tool = "get_client_info"
    /\ \E resp \in Answers("get_client_info") :
          LET end == get_client_info_resume(resp)
          IN  /\ response' = resp
              /\ outcome' = end.outcome
              /\ steps' = end.steps
    /\ pc' = "done"
    /\ UNCHANGED <<tz, now, call, requests, prevSent>>

\* The await returns (or raises) and get_statement runs to its end.
ResumeStatement ==
    /\ pc = "awaiting"
    /\ call.tool = "get_statement"
    /\ \E resp \in Answers("get_statement") :
          LET end == get_statement_resume(resp)
          IN  /\ response' = resp
              /\ outcome' = end.outcome
              /\ steps' = end.steps
    /\ pc' = "done"
    /\ UNCHANGED <<tz, now, call, requests, prevSent>>

\* The caller has its answer; the server is ready for the next call.
Finish ==
    /\ pc = "done"
    /\ pc' = "idle"
    /\ prevSent' = <<call.at>>
    /\ call' = NoCall
    /\ requests' = <<>>
    /\ response' = NoResponse
    /\ steps' = <<>>
    /\ outcome' = NoOutcome
    /\ UNCHANGED <<tz, now>>

\* get_statement resumed with an element out of a wide range of values.
ResumeStatementOfSize ==
    /\ pc = "awaiting"
    /\ call.tool = "get_statement"
    /\ \E resp \in AnswersOfSize :
          LET end == get_statement_resume(resp)
          IN  /\ response' = resp
              /\ outcome' = end.outcome
              /\ steps' = end.steps
    /\ pc' = "done"
    /\ UNCHANGED <<tz, now, call, requests, prevSent>>

Next ==
    \/ Tick
    \/ InvokeClientInfo
    \/ InvokeStatement
    \/ ResumeClientInfo
    \/ ResumeStatement
    \/ Finish

Spec == Init /\ [][Next]_vars

\* get_statement alone, answered with elements of a wide range of values.
NextValues ==
    \/ InvokeStatement
    \/ ResumeStatementOfSize
    \/ Finish

SpecValues == Init /\ [][NextValues]_vars

(***************************************************************************)
(*                              PROPERTIES                                 *)
(*                                                                         *)
(* The wire schema as the specification states it, independently of the    *)
(* models above: the alias table, and each record's declared field types.  *)
(***************************************************************************)
WireAlias ==
    ("send_id" :> "sendId") @@ ("credit_limit" :> "creditLimit")
    @@ ("currency_code" :> "currencyCode") @@ ("cashback_type" :> "cashbackType")
    @@ ("masked_pan" :> "maskedPan") @@ ("client_id" :> "clientId")
    @@ ("webhook_url" :> "webHookUrl") @@ ("original_mcc" :> "originalMcc")
    @@ ("operation_amount" :> "operationAmount") @@ ("commission_rate" :> "commissionRate")
    @@ ("cashback_amount" :> "cashbackAmount") @@ ("receipt_id" :> "receiptId")
    @@ ("invoice_id" :> "invoiceId") @@ ("counter_edrpou" :> "counterEdrpou")
    @@ ("counter_iban" :> "counterIban") @@ ("counter_name" :> "counterName")

WireKey(name) == IF name \in DOMAIN WireAlias THEN WireAlias[name] ELSE name

AccountTypes ==
    ("id" :> "str") @@ ("send_id" :> "str") @@ ("balance" :> "int")
    @@ ("credit_limit" :> "int") @@ ("type" :> "str") @@ ("currency_code" :> "int")
    @@ ("cashback_type" :> "str") @@ ("masked_pan" :> "list_str") @@ ("iban" :> "str")

JarTypes ==
    ("id" :> "str") @@ ("send_id" :> "str") @@ ("title" :> "str")
    @@ ("description" :> "str") @@ ("currency_code" :> "int") @@ ("balance" :> "int")
    @@ ("goal" :> "int")
JarOptional == {"description", "goal"}

HeadTypes ==
    ("client_id" :> "str") @@ ("name" :> "str") @@ ("webhook_url" :> "str")
    @@ ("permissions" :> "str")

ItemTypes ==
    ("id" :> "str") @@ ("time" :> "int") @@ ("description" :> "str") @@ ("mcc" :> "int")
    @@ ("original_mcc" :> "int") @@ ("hold" :> "bool") @@ ("amount" :> "int")
    @@ ("operation_amount" :> "int") @@ ("currency_code" :> "int")
    @@ ("commission_rate" :> "int") @@ ("cashback_amount" :> "int") @@ ("balance" :> "int")
    @@ ("comment" :> "str") @@ ("receipt_id" :> "str") @@ ("invoice_id" :> "str")
    @@ ("counter_edrpou" :> "str") @@ ("counter_iban" :> "str") @@ ("counter_name" :> "str")
ItemOptional ==
    {"comment", "receipt_id", "invoice_id", "counter_edrpou", "counter_iban", "counter_name"}

\* jv is of the declared type.
OfType(type, jv) ==
    IF type = "list_str"
    THEN jv.t = "list" /\ \A i \in 1..Len(jv.l) : jv.l[i].t = "str"
    ELSE jv.t = type

\* obj has every required field, and every field it has is of its declared
\* type (an optional one may be null).
WireTyped(types, optional, obj) ==
    \A name \in DOMAIN types :
        IF WireKey(name) \in DOMAIN obj /\ obj[WireKey(name)].t # "null"
        THEN OfType(types[name], obj[WireKey(name)])
        ELSE name \in optional

\* obj has a required field holding a value of another type than declared.
HasWrongType(types, optional, obj) ==
    \E name \in DOMAIN types \ optional :
        /\ WireKey(name) \in DOMAIN obj
        /\ ~OfType(types[name], obj[WireKey(name)])

\* obj lacks a required field.
LacksRequired(types, optional, obj) ==
    \E name \in DOMAIN types \ optional : WireKey(name) \notin DOMAIN obj

\* The value of a field on the wire; null when it is not there.
OnWire(obj, name) == IF WireKey(name) \in DOMAIN obj THEN obj[WireKey(name)] ELSE JNull

Done(tool) == pc = "done" /\ call.tool = tool
Answered2xx == response.kind = "http" /\ response.status \in 200..299
Returned(tool) == Done(tool) /\ outcome.kind = "return"
RaisedOnly(exc) ==
    outcome.kind = "raise" /\ outcome.exc = exc /\ outcome.items = <<>> /\ outcome.info = <<>>
RanAfterFetch == {steps[i] : i \in 1..Len(steps)} \ {"get", "raise_for_status"}

(***************************************************************************)
(* C1.  A non-2xx answer to the single GET fails the call, of either tool, *)
(* with the status-error kind carrying that status; no second request is   *)
(* issued, nothing is parsed, validated or transformed, and no result is   *)
(* returned.                                                               *)
(***************************************************************************)
C1_NonSuccessRaisesStatusError ==
    (pc = "done" /\ response.kind = "http" /\ response.status \notin 200..299) =>
        /\ RaisedOnly("HTTPStatusError")
        /\ outcome.status = response.status
        /\ Len(requests) = 1
        /\ RanAfterFetch = {}

\* A 429 whose body would have validated, had it been looked at.
C1_Witness429 ==
    /\ Done("get_statement")
    /\ response = Http(429, ArrayBody(<<ItemFull, ItemNulls>>))
    /\ outcome.exc = "HTTPStatusError" /\ outcome.status = 429
    /\ Len(requests) = 1

(***************************************************************************)
(* C2.  A transport-level failure of the GET fails the call, of either     *)
(* tool, with the connection-failure kind, whose cause is the transport    *)
(* error; that kind is raised for nothing else, and no result is returned. *)
(***************************************************************************)
C2_TransportErrorWrapped ==
    pc = "done" =>
        /\ response.kind = "error" =>
              /\ RaisedOnly("ConnectionError")
              /\ outcome.cause = response.exc
              /\ outcome.cause \in TransportErrors
        /\ outcome.exc = "ConnectionError" => response.kind = "error"
        /\ response.kind = "error" => outcome.exc \notin {"HTTPStatusError", "ValidationError"}

\* Connection refused, wrapped.
C2_WitnessRefused ==
    /\ Done("get_client_info")
    /\ response.kind = "error" /\ response.exc = "ConnectError"
    /\ outcome.exc = "ConnectionError" /\ outcome.cause = "ConnectError"

(***************************************************************************)
(* C3.  get_statement is all-or-nothing: when any element of a 2xx array   *)
(* lacks a required field, the call fails with a validation error and      *)
(* returns no item, well-formed neighbours included.                       *)
(***************************************************************************)
C3_AllOrNothing ==
    (/\ Done("get_statement") /\ Answered2xx /\ response.body.form = "array"
     /\ \E i \in 1..Len(response.body.items) :
            LacksRequired(ItemTypes, ItemOptional, response.body.items[i]))
    => RaisedOnly("ValidationError")

\* A well-formed element followed by one without mcc.
C3_WitnessNoMcc ==
    /\ Done("get_statement") /\ Answered2xx
    /\ response.body = ArrayBody(<<ItemFull, ItemNoMcc>>)
    /\ WireTyped(ItemTypes, ItemOptional, ItemFull)
    /\ outcome.exc = "ValidationError" /\ outcome.items = <<>>

(***************************************************************************)
(* C4.  In every record type, a required field holding a value of another  *)
(* type than the declared one makes the call fail: a value of the wrong    *)
(* type is never converted and accepted.                                   *)
(***************************************************************************)
DocHasWrongType(doc) ==
    \/ HasWrongType(HeadTypes, {}, doc)
    \/ "accounts" \in DOMAIN doc /\ doc["accounts"].t # "list"
    \/ /\ "accounts" \in DOMAIN doc /\ doc["accounts"].t = "list"
       /\ \E i \in 1..Len(doc["accounts"].l) :
              HasWrongType(AccountTypes, {}, doc["accounts"].l[i])
    \/ /\ "jars" \in DOMAIN doc /\ doc["jars"].t = "list"
       /\ \E i \in 1..Len(doc["jars"].l) :
              HasWrongType(JarTypes, JarOptional, doc["jars"].l[i])

C4_WrongTypeRejected ==
    /\ (/\ Done("get_statement") /\ Answered2xx /\ response.body.form = "array"
        /\ \E i \in 1..Len(response.body.items) :
               HasWrongType(ItemTypes, ItemOptional, response.body.items[i]))
       => outcome.kind = "raise"
    /\ (/\ Done("get_client_info") /\ Answered2xx /\ response.body.form = "object"
        /\ DocHasWrongType(response.body.doc))
       => outcome.kind = "raise"

(***************************************************************************)
(* C5.  When get_statement returns, it returns as many elements as the     *)
(* upstream array has, and none of them has any of the keys id,            *)
(* invoice_id, counter_edrpou, counter_iban, whether or not the wire       *)
(* element had the field: the keys are absent, not null.                   *)
(***************************************************************************)
C5_CountKeptAndRedacted ==
    Returned("get_statement") =>
        /\ Len(outcome.items) = Len(response.body.items)
        /\ \A i \in 1..Len(outcome.items) :
              DOMAIN outcome.items[i]
                  \cap {"id", "invoice_id", "counter_edrpou", "counter_iban"} = {}

\* One element that had all four fields on the wire, one that had only id.
C5_WitnessBothShapes ==
    /\ Returned("get_statement")
    /\ response.body.items = <<ItemFull, ItemMinimal>>
    /\ {"invoiceId", "counterEdrpou", "counterIban"} \subseteq DOMAIN ItemFull
    /\ "invoiceId" \notin DOMAIN ItemMinimal
    /\ Len(outcome.items) = 2
    /\ "invoice_id" \notin DOMAIN outcome.items[1]
    /\ "invoice_id" \notin DOMAIN outcome.items[2]

(***************************************************************************)
(* Exact arithmetic on naturals of any size, for stating what a float is   *)
(* worth: a natural is the sequence of its base-2^15 digits, least         *)
(* significant first, without leading zeros.                               *)
(***************************************************************************)
Limb == 2^15

RECURSIVE BigFromInt(_)
BigFromInt(i) == IF i = 0 THEN <<>> ELSE <<i % Limb>> \o BigFromInt(i \div Limb)

\* x * k + c, for k and c below 2^15.
RECURSIVE BigMulAdd(_, _, _)
BigMulAdd(x, k, c) ==
    IF x = <<>> THEN BigFromInt(c)
    ELSE LET p == Head(x) * k + c
             rest == BigMulAdd(Tail(x), k, p \div Limb)
         IN  IF rest = <<>> /\ p % Limb = 0 THEN <<>> ELSE <<p % Limb>> \o rest

\* x * 2^n
BigShift(x, n) ==
    IF x = <<>> THEN <<>>
    ELSE [i \in 1..(n \div 15) |-> 0] \o BigMulAdd(x, 2^(n % 15), 0)

RECURSIVE SumBelow(_, _)
SumBelow(f, n) == IF n = 0 THEN 0 ELSE f[n - 1] + SumBelow(f, n - 1)

\* The natural whose binary digits are bits, most significant first.
BigFromBits(bits) ==
    LET weight(w) == IF Len(bits) - w >= 1 THEN bits[Len(bits) - w] * 2^(w % 15) ELSE 0
        limbs == (Len(bits) + 14) \div 15
        raw   == [j \in 1..limbs |->
                     SumBelow([w \in 0..14 |-> weight((j - 1) * 15 + w)],
                              15)]
        top   == IF \A j \in 1..limbs : raw[j] = 0 THEN 0
                 ELSE CHOOSE j \in 1..limbs : raw[j] # 0 /\ \A h \in j + 1..limbs : raw[h] = 0
    IN  SubSeq(raw, 1, top)

\* x <= y
BigLeq(x, y) ==
    \/ Len(x) < Len(y)
    \/ /\ Len(x) = Len(y)
       /\ \/ x = y
          \/ \E j \in 1..Len(x) : x[j] < y[j] /\ \A h \in j + 1..Len(x) : x[h] = y[h]

\* The float f against the quotient a / d, both scaled by d * 2^-f.exp:
\* d times the significand, and |a| shifted.
Scaled(f, d) == BigMulAdd(BigFromBits(f.sig), d, 0)
ShiftedDividend(f, a) == BigShift(BigFromInt(IF a < 0 THEN -a ELSE a), -f.exp)

IsBinary64(f) ==
    /\ f.sign \in {0, 1}
    /\ f.sig = <<>> \/ (Len(f.sig) = 53 /\ f.sig[1] = 1 /\ f.exp <= 0)
    /\ \A i \in 1..Len(f.sig) : f.sig[i] \in {0, 1}

\* d * f = a, exactly.
ExactQuotient(f, a, d) == Scaled(f, d) = ShiftedDividend(f, a)

\* |f - a / d| is at most half a unit in f's last place: no binary64 number
\* is nearer to a / d.
NearestQuotient(f, a, d) ==
    /\ BigLeq(BigMulAdd(Scaled(f, d), 2, 0), BigMulAdd(ShiftedDividend(f, a), 2, d))
    /\ BigLeq(BigMulAdd(ShiftedDividend(f, a), 2, 0), BigMulAdd(Scaled(f, d), 2, d))

SignKept(f, a) == (a < 0 => f.sign = 1) /\ (a > 0 => f.sign = 0) /\ (a = 0 => f.sig = <<>>)

OtherNumericKeys == {"mcc", "original_mcc", "currency_code"}

\* The minor-unit integer the upstream sent for an amount field.
Sent(i, key) == OnWire(response.body.items[i], key).n

(***************************************************************************)
(* C6 as claimed.  Each of amount, operation_amount, commission_rate,      *)
(* cashback_amount, balance of a returned item is the upstream integer     *)
(* divided by 100 exactly (100 * output = a) with its sign; mcc,           *)
(* original_mcc and currency_code are not divided.                         *)
(***************************************************************************)
C6_ExactHundredths ==
    Returned("get_statement") =>
        \A i \in 1..Len(outcome.items) :
            /\ \A key \in AmountKeys :
                  /\ ExactQuotient(outcome.items[i][key], Sent(i, key), 100)
                  /\ SignKept(outcome.items[i][key], Sent(i, key))
            /\ \A key \in OtherNumericKeys : outcome.items[i][key].t = "int"

(***************************************************************************)
(* C6 as amended.  Each of the five amounts of a returned item is the      *)
(* float a / 100: the binary64 number nearest to the upstream integer      *)
(* divided by 100, with its sign; it is that quotient exactly when, and    *)
(* only when, a is a multiple of 25.  mcc, original_mcc and currency_code  *)
(* stay the integers they were.                                            *)
(***************************************************************************)
C6_NearestHundredths ==
    Returned("get_statement") =>
        \A i \in 1..Len(outcome.items) :
            /\ \A key \in AmountKeys :
                  /\ IsBinary64(outcome.items[i][key])
                  /\ NearestQuotient(outcome.items[i][key], Sent(i, key), 100)
                  /\ ExactQuotient(outcome.items[i][key], Sent(i, key), 100)
                        <=> Sent(i, key) % 25 = 0
                  /\ SignKept(outcome.items[i][key], Sent(i, key))
            /\ \A key \in OtherNumericKeys :
                  /\ outcome.items[i][key].t = "int"
                  /\ OnWire(response.body.items[i], key).t = "int"
                        => outcome.items[i][key] = OnWire(response.body.items[i], key)

\* Negative, positive and zero amounts, multiples of 25 and others, returned.
C6_WitnessSigns ==
    /\ Returned("get_statement")
    /\ response.body.items = <<ItemOfSize(-7)>>
    /\ Sent(1, "amount") = -7 /\ outcome.items[1]["amount"].sign = 1
    /\ ~ExactQuotient(outcome.items[1]["amount"], -7, 100)
    /\ Sent(1, "commission_rate") = 175 /\ outcome.items[1]["commission_rate"].sign = 0
    /\ ExactQuotient(outcome.items[1]["commission_rate"], 175, 100)
    /\ Sent(1, "balance") = -119000007
    /\ outcome.items[1]["mcc"] = JInt(4829)

(***************************************************************************)
(* C7.  The time of every returned item is a string of the exact form      *)
(* YYYY-MM-DDTHH:MM:SSZ that denotes the upstream epoch second in UTC,     *)
(* whatever the host's time zone.                                          *)
(***************************************************************************)
DigitValue(c) == CHOOSE v \in 0..9 : Digits[v + 1] = c

RECURSIVE Number(_)
Number(cs) ==
    IF cs = <<>> THEN 0 ELSE 10 * Number(SubSeq(cs, 1, Len(cs) - 1)) + DigitValue(cs[Len(cs)])

IsDigits(cs) == \A i \in 1..Len(cs) : \E v \in 0..9 : Digits[v + 1] = cs[i]

MonthLength(y, m) ==
    IF m \in {1, 3, 5, 7, 8, 10, 12} THEN 31
    ELSE IF m # 2 THEN 30
    ELSE IF y % 400 = 0 \/ (y % 4 = 0 /\ y % 100 # 0) THEN 29 ELSE 28

RECURSIVE DaysBefore(_, _)
DaysBefore(y, m) == IF m = 1 THEN 0 ELSE DaysBefore(y, m - 1) + MonthLength(y, m - 1)

LeapYearsBefore(y) == (y - 1) \div 4 - (y - 1) \div 100 + (y - 1) \div 400

\* YYYY-MM-DDTHH:MM:SSZ, every field in its range.
IsIsoUtc(cs) ==
    /\ Len(cs) = 20
    /\ cs[5] = "-" /\ cs[8] = "-" /\ cs[11] = "T" /\ cs[14] = ":" /\ cs[17] = ":"
    /\ cs[20] = "Z"
    /\ \A i \in (1..19) \ {5, 8, 11, 14, 17} : IsDigits(<<cs[i]>>)
    /\ Number(SubSeq(cs, 6, 7)) \in 1..12
    /\ Number(SubSeq(cs, 9, 10)) \in
           1..MonthLength(Number(SubSeq(cs, 1, 4)), Number(SubSeq(cs, 6, 7)))
    /\ Number(SubSeq(cs, 12, 13)) \in 0..23
    /\ Number(SubSeq(cs, 15, 16)) \in 0..59
    /\ Number(SubSeq(cs, 18, 19)) \in 0..59

\* The epoch second a string of that form denotes, read as UTC.
EpochOfIsoUtc(cs) ==
    LET y == Number(SubSeq(cs, 1, 4))
        days == 365 * (y - 1970) + LeapYearsBefore(y) - LeapYearsBefore(1970)
                + DaysBefore(y, Number(SubSeq(cs, 6, 7))) + Number(SubSeq(cs, 9, 10)) - 1
    IN  days * 86400 + Number(SubSeq(cs, 12, 13)) * 3600
        + Number(SubSeq(cs, 15, 16)) * 60 + Number(SubSeq(cs, 18, 19))

C7_TimeIsIsoUtc ==
    Returned("get_statement") =>
        \A i \in 1..Len(outcome.items) :
            /\ outcome.items[i]["time"].t = "str"
            /\ IsIsoUtc(outcome.items[i]["time"].l)
            /\ EpochOfIsoUtc(outcome.items[i]["time"].l) = Sent(i, "time")

\* On a host two hours east of UTC, 1700000000 is given as 2023-11-14T22:13:20Z.
C7_WitnessKyiv ==
    /\ Returned("get_statement")
    /\ tz = 7200
    /\ Sent(1, "time") = 1700000000
    /\ outcome.items[1]["time"].l =
           <<"2", "0", "2", "3", "-", "1", "1", "-", "1", "4", "T",
             "2", "2", ":", "1", "3", ":", "2", "0", "Z">>

(***************************************************************************)
(* C8.  The request of get_statement is to the statement path with         *)
(* account_id and from_timestamp as the caller gave them, and as upper     *)
(* bound the caller's to_timestamp when it is not 0 and the wall clock at  *)
(* call time when it is; the window is not clamped to 31 days + 1 hour and *)
(* a call right after another still issues its request.                    *)
(***************************************************************************)
\* The characters of cs before, and after, its first "/".
BeforeSlash(cs) ==
    SubSeq(cs, 1, (CHOOSE i \in 1..Len(cs) + 1 :
                      /\ i = Len(cs) + 1 \/ cs[i] = "/"
                      /\ \A j \in 1..i - 1 : cs[j] # "/") - 1)
AfterSlash(cs) == SubSeq(cs, Len(BeforeSlash(cs)) + 2, Len(cs))

SignedNumber(cs) == IF cs # <<>> /\ cs[1] = "-" THEN -Number(Tail(cs)) ELSE Number(cs)

UrlBounds(url) == SubSeq(url, 4, Len(url))

C8_RequestPath ==
    call.tool = "get_statement" =>
        /\ Len(requests) = 1
        /\ requests[1].method = "GET"
        /\ requests[1].url[1] = "https://api.monobank.ua/personal/statement/"
        /\ requests[1].url[2] = call.account_id
        /\ requests[1].url[3] = "/"
        /\ SignedNumber(BeforeSlash(UrlBounds(requests[1].url))) = call.from_timestamp
        /\ SignedNumber(AfterSlash(UrlBounds(requests[1].url))) =
              (IF call.to_timestamp = 0 THEN call.at ELSE call.to_timestamp)

\* A window of more than 31 days + 1 hour, requested as given half a minute
\* after the previous call's request, on a host east of UTC.
C8_WitnessWideWindowSoonAfter ==
    /\ pc = "awaiting" /\ call.tool = "get_statement"
    /\ call.to_timestamp # 0
    /\ call.to_timestamp - call.from_timestamp > 31 * 86400 + 3600
    /\ prevSent # <<>> /\ call.at - prevSent[1] < 60
    /\ tz # 0
    /\ Len(requests) = 1
    /\ SignedNumber(AfterSlash(UrlBounds(requests[1].url))) = call.to_timestamp

(***************************************************************************)
(* C9.  For a ClientInfo document as the wire schema has it,               *)
(* get_client_info returns every field under its canonical name with the   *)
(* value it has on the wire, accounts and jars in their order and number,  *)
(* integers undivided; a document without jars is accepted and one without *)
(* accounts is rejected.                                                   *)
(***************************************************************************)
DocWireTyped(doc) ==
    /\ WireTyped(HeadTypes, {}, doc)
    /\ "accounts" \in DOMAIN doc /\ doc["accounts"].t = "list"
    /\ \A i \in 1..Len(doc["accounts"].l) : WireTyped(AccountTypes, {}, doc["accounts"].l[i])
    /\ "jars" \in DOMAIN doc =>
          \/ doc["jars"].t = "null"
          \/ /\ doc["jars"].t = "list"
             /\ \A i \in 1..Len(doc["jars"].l) :
                    WireTyped(JarTypes, JarOptional, doc["jars"].l[i])

\* dumped holds, under their canonical names, exactly the fields of types
\* with the values obj has on the wire.
SameRecord(types, obj, dumped) ==
    /\ DOMAIN dumped = DOMAIN types
    /\ \A name \in DOMAIN types : dumped[name] = OnWire(obj, name)

SameList(types, wire, dumped) ==
    /\ dumped.t = "list"
    /\ Len(dumped.l) = Len(wire.l)
    /\ \A i \in 1..Len(wire.l) : SameRecord(types, wire.l[i], dumped.l[i])

C9_ClientInfoKept ==
    (Done("get_client_info") /\ Answered2xx /\ response.body.form = "object") =>
        LET doc == response.body.doc
        IN  /\ "accounts" \notin DOMAIN doc => RaisedOnly("ValidationError")
            /\ DocWireTyped(doc) =>
                  /\ outcome.kind = "return"
                  /\ DOMAIN outcome.info = DOMAIN HeadTypes \cup {"accounts", "jars"}
                  /\ \A name \in DOMAIN HeadTypes : outcome.info[name] = OnWire(doc, name)
                  /\ SameList(AccountTypes, doc["accounts"], outcome.info["accounts"])
                  /\ IF "jars" \in DOMAIN doc /\ doc["jars"].t = "list"
                     THEN SameList(JarTypes, doc["jars"], outcome.info["jars"])
                     ELSE outcome.info["jars"] = JNull

\* Two accounts and two jars returned in their order, balances in minor units.
C9_WitnessFull ==
    /\ Returned("get_client_info")
    /\ response.body.doc = DocFull
    /\ DocWireTyped(DocFull)
    /\ outcome.info["client_id"] = JStr("client-1")
    /\ outcome.info["accounts"].l[1]["send_id"] = JStr("send-1")
    /\ outcome.info["accounts"].l[1]["balance"] = JInt(123456)
    /\ outcome.info["accounts"].l[2]["id"] = JStr("acc-2")
    /\ outcome.info["jars"].l[1]["goal"] = JInt(1000000)
    /\ outcome.info["jars"].l[2]["goal"] = JNull

(***************************************************************************)
(* C10.  get_statement maps the upstream array element by element, in      *)
(* order: in the i-th returned item description, mcc, original_mcc, hold,  *)
(* currency_code, comment, receipt_id and counter_name carry exactly the   *)
(* values of the i-th upstream element (null when it has none).            *)
(***************************************************************************)
PassThroughKeys ==
    {"description", "mcc", "original_mcc", "hold", "currency_code", "comment",
     "receipt_id", "counter_name"}

C10_PassThroughInOrder ==
    Returned("get_statement") =>
        /\ Len(outcome.items) = Len(response.body.items)
        /\ \A i \in 1..Len(outcome.items) :
              \A key \in PassThroughKeys :
                  /\ key \in DOMAIN outcome.items[i]
                  /\ outcome.items[i][key] = OnWire(response.body.items[i], key)

====
